---- MODULE Spec2Model ----
(***************************************************************************)
(* A model of kia-mcp's server.py: the resource registry (`resources`),    *)
(* the searcher handle tables (`searchers`, `package_searchers`), the      *)
(* persisted snapshot /tmp/resources.json, and the tools that read and     *)
(* write them.                                                             *)
(*                                                                         *)
(* Spec      one request at a time: every tool call is one action, the     *)
(*           outcomes of the external collaborators (git, HTTP, LEANN,     *)
(*           the file system) are inputs of the action.                    *)
(* SpecConc  two worker threads running tool calls statement by statement. *)
(* SpecCache the registry tools and the cached read_source_content.        *)
(* SpecResearch, SpecChunk, SpecRead                                       *)
(*           one call of kia_deep_research_agent, of chunk_text and of     *)
(*           kia_package_search_read_file, over bounded inputs.            *)
(* SpecChunkDefault                                                        *)
(*           chunk_text with its default chunk size and overlap, on long   *)
(*           texts.                                                        *)
(***************************************************************************)
EXTENDS Integers, Sequences, FiniteSets, TLC

VARIABLES
    resources,          \* server.py:51  identifier -> metadata
    searchers,          \* server.py:49  identifier -> LeannSearcher object
    package_searchers,  \* server.py:50  package name -> LeannSearcher object
    disk,               \* the file RESOURCES_FILE (server.py:52)
    cloned,             \* names n for which the directory /tmp/n exists
    libs,               \* LIBRARIES_AVAILABLE (server.py:20,22)
    up,                 \* the server process is running
    ret,                \* the response of the call in progress / just made
    threads,            \* SpecConc: each worker's call and position in it
    cache,              \* server.py:463  lru_cache of read_source_content
    research,           \* SpecResearch: a call of kia_deep_research_agent
    chunker,            \* SpecChunk: a call of chunk_text
    reader              \* SpecRead: a call of kia_package_search_read_file

vars == <<resources, searchers, package_searchers, disk, cloned, libs, up,
          ret, threads, cache, research, chunker, reader>>

\* the calls the server specifications leave alone
locals == <<research, chunker, reader>>

----------------------------------------------------------------------------
(* Bounds of the model *)

\* tool calls one worker thread makes (SpecConc)
MaxCalls == 2

\* characters of a text handed to chunk_text (SpecChunk)
MaxText == 5

\* lines of a file handed to kia_package_search_read_file (SpecRead)
MaxLines == 3

----------------------------------------------------------------------------
(* Inputs *)

\* A URL is the sequence of its '/'-separated parts; only the last matters.
DocUrls == { <<"h1", "a">>, <<"h2", "a">>, <<"h1", "">> }
RepoUrls == { <<"h1", "a.git">> }
\* the identifiers the URLs above resolve to
Names == { "a", "doc" }
\* the identifiers handed to check_resource_status, rename_resource, delete_resource
Identifiers == Names \cup { "b" }
PackageNames == { "a" }
Registries == { "local", "py_pi" }
Queries == { "", " ", "q" }
Threads == { 1, 2 }

Last(s) == s[Len(s)]

\* str.replace('.git', '') on the last part of a repository URL
StripGit(s) == IF s = "a.git" THEN "a" ELSE s

\* repo_url.split('/')[-1].replace('.git', '')
RepoName(url) == StripGit(Last(url))

\* url.split('/')[-1] or 'doc'
DocName(url) == IF Last(url) = "" THEN "doc" ELSE Last(url)

\* Path(f"/tmp/{repo_name}")
RepoPath(name) == <<"/tmp", name>>

\* a strip() that keeps the blanks
StripKeeps(q) == q

\* an exists() that misses the directory
PathExistsNever(dirs, name) == FALSE

\* Path(f"/tmp/{repo_name}").exists(), `dirs` the names n with a directory /tmp/n
PathExists(dirs, name) == name \in dirs

\* str.strip() on the queries of the model
Strip(q) == IF q = " " THEN "" ELSE q

----------------------------------------------------------------------------
(* Dictionaries *)

EmptyMap == [x \in {} |-> 0]
Put(f, k, v) == [x \in DOMAIN f \cup {k} |-> IF x = k THEN v ELSE f[x]]
Remove(f, k) == [x \in DOMAIN f \ {k} |-> f[x]]

RepoMeta(name) == [type |-> "repository", loc |-> RepoPath(name), status |-> "indexed"]
DocMeta(url) == [type |-> "documentation", loc |-> url, status |-> "indexed"]

----------------------------------------------------------------------------
(* Persistence *)

NoFile == [kind |-> "none", reg |-> EmptyMap]
Torn == [kind |-> "torn", reg |-> EmptyMap]
Snapshot(reg) == [kind |-> "snap", reg |-> reg]

SaveOutcomes == { "ok", "raise_write", "crash_write" }

\* save_resources: open('w') truncates the file, json.dump then writes it.
\*   ok           the whole registry is written
\*   raise_write  json.dump raises after the truncation (the disk is full)
\*   crash_write  the process dies after the truncation
SaveResources(d, reg, o) ==
    IF o = "ok" THEN Snapshot(reg) ELSE Torn

\* load_resources: the registry after start-up; json.load raises on a torn file
LoadFails(d) == d.kind = "torn"
LoadResources(d) == IF d.kind = "snap" THEN d.reg ELSE EmptyMap

----------------------------------------------------------------------------
(* Responses *)

\* A response: the call (op, id, id2, query, ids), what it returned (out,
\* results; loc, the location a "Content from ..." message names), and, as history, the failure that made an indexing call return
\* an error (cause) and the tables and the file as the call found them.
NoRet == [op |-> "none", id |-> "", id2 |-> "", query |-> "", ids |-> <<>>,
          out |-> "", loc |-> <<>>, results |-> <<>>, cause |-> "",
          before |-> [resources |-> EmptyMap, searchers |-> EmptyMap,
                      package_searchers |-> EmptyMap, disk |-> NoFile,
                      cloned |-> {}]]

Resp(op, id, out) ==
    [NoRet EXCEPT !.op = op, !.id = id, !.out = out,
                  !.before = [resources |-> resources, searchers |-> searchers,
                              package_searchers |-> package_searchers, disk |-> disk,
                              cloned |-> cloned]]

\* A worker thread: the call it runs (op, id, url), the statement it is at
\* (pc), what its last call returned (out) and the calls it has made.
NoThread == [pc |-> "idle", op |-> "none", id |-> "", url |-> <<>>, out |-> "",
             calls |-> 0]

\* A call of kia_deep_research_agent: PARALLEL_API_KEY is set (key), the
\* statement it is at (pc), the run the service started (run_id), the result
\* requests it has made (polls), what it returned (out) and the run that
\* message names (out_run_id).
NoResearch == [pc |-> "idle", key |-> FALSE, run_id |-> "", polls |-> 0,
               out |-> "", out_run_id |-> ""]

\* A call of chunk_text: its arguments, the statement it is at (pc) and its
\* locals start and chunks; `chunks` is the return value when pc = "done".
NoChunker == [pc |-> "idle", text |-> <<>>, chunk_size |-> 0, overlap |-> 0,
              start |-> 0, chunks |-> <<>>]

\* A call of kia_package_search_read_file: the file (exists, lines), the
\* arguments and what it returned (out; the lines of a successful read).
NoReader == [pc |-> "idle", registry |-> "", exists |-> FALSE, lines |-> <<>>,
             start_line |-> 0, end_line |-> 0, out |-> "", read |-> <<>>]

Init ==
    /\ resources = EmptyMap
    /\ searchers = EmptyMap
    /\ package_searchers = EmptyMap
    /\ disk = NoFile
    /\ cloned = {}
    /\ libs \in BOOLEAN
    /\ up = TRUE
    /\ ret = NoRet
    /\ threads = [t \in Threads |-> NoThread]
    /\ cache = EmptyMap
    /\ research = NoResearch
    /\ chunker = NoChunker
    /\ reader = NoReader

\* The process dies: everything in memory is gone, the files stay.
Down ==
    /\ up' = FALSE
    /\ cache' = EmptyMap
    /\ resources' = EmptyMap
    /\ searchers' = EmptyMap
    /\ package_searchers' = EmptyMap

Failed(op, id, out, cause) == [Resp(op, id, out) EXCEPT !.cause = cause]

\* A request is dispatched when the server runs and no call is in progress.
Ready == up /\ ret.op = "none"

----------------------------------------------------------------------------
(* Indexing *)

BuildOutcomes == { "build_fail", "searcher_fail" } \cup SaveOutcomes

\* Path(f"/tmp/leann_{name}") and Path(f"/tmp/leann_pkg_{package_name}")
IndexPath(name) == <<"/tmp", "leann_", name>>
PackageIndexPath(package_name) == <<"/tmp", "leann_pkg_", package_name>>

\* site_packages / package_name
PackagePath(package_name) == <<"site-packages", package_name>>

\* LeannSearcher(str(index_path)): the searcher of the index at index_path,
\* which the builder filled with the chunks of `content`
Searcher(index_path, content) == [index_path |-> index_path, content |-> content]
NoSearcher == [index_path |-> <<>>, content |-> <<>>]

\* searchers[name] = LeannSearcher(str(index_path))
RegisterHandle(s, name, h) == Put(s, name, h)

\* resources[name] = {...}
RegisterResource(reg, name, meta) == Put(reg, name, meta)

\* The try block of index_repository and of index_documentation: build the
\* LEANN index, construct the searcher, record the resource, save.
\*   build_fail     LeannBuilder / add_document / build raises
\*   searcher_fail  LeannSearcher(...) raises
\*   otherwise      the outcome of save_resources
BuildIndex(op, name, meta, o) ==
    \/ /\ o \in { "build_fail", "searcher_fail" }
       /\ ret' = Failed(op, name, "ErrorBuildingIndex", o)
       /\ UNCHANGED <<resources, searchers, package_searchers, disk, up, cache>>
    \/ /\ o \in { "ok", "raise_write" }
       /\ searchers' = RegisterHandle(searchers, name, Searcher(IndexPath(name), meta.loc))
       /\ resources' = RegisterResource(resources, name, meta)
       /\ disk' = SaveResources(disk, resources', o)
       /\ ret' = IF o = "ok" THEN Resp(op, name, "Indexed")
                 ELSE Failed(op, name, "ErrorBuildingIndex", o)
       /\ UNCHANGED <<package_searchers, up, cache>>
    \/ /\ o = "crash_write"
       /\ disk' = SaveResources(disk, RegisterResource(resources, name, meta), o)
       /\ Down
       /\ ret' = Resp(op, name, "Crashed")

\* index_repository; `o` is the first step that fails:
\*   clone_fail     git clone returns non-zero (git removes the directory it made)
\*   collect_raise  the cocoindex flow raises, outside every try
\*   otherwise      an outcome of the try block
index_repository(repo_url, o) ==
    LET repo_name == RepoName(repo_url) IN
    /\ Ready
    /\ UNCHANGED <<libs, threads, locals>>
    /\ \/ /\ ~libs
          /\ ret' = Resp("index_repository", repo_name, "LibrariesNotAvailable")
          /\ UNCHANGED <<resources, searchers, package_searchers, disk, cloned, up, cache>>
       \/ /\ libs
          /\ PathExists(cloned, repo_name)
          /\ ret' = Resp("index_repository", repo_name, "AlreadyCloned")
          /\ UNCHANGED <<resources, searchers, package_searchers, disk, cloned, up, cache>>
       \/ /\ libs
          /\ ~PathExists(cloned, repo_name)
          /\ o = "clone_fail"
          /\ ret' = Failed("index_repository", repo_name, "GitCloneFailed", o)
          /\ UNCHANGED <<resources, searchers, package_searchers, disk, cloned, up, cache>>
       \/ /\ libs
          /\ ~PathExists(cloned, repo_name)
          /\ o = "collect_raise"
          /\ cloned' = cloned \cup {repo_name}
          /\ ret' = Failed("index_repository", repo_name, "Raised", o)
          /\ UNCHANGED <<resources, searchers, package_searchers, disk, up, cache>>
       \/ /\ libs
          /\ ~PathExists(cloned, repo_name)
          /\ o \in BuildOutcomes
          /\ cloned' = cloned \cup {repo_name}
          /\ BuildIndex("index_repository", repo_name, RepoMeta(repo_name), o)

\* index_documentation; `o` is the first step that fails:
\*   fetch_fail     requests.get / raise_for_status raises
\*   otherwise      an outcome of the try block
index_documentation(url, o) ==
    LET doc_name == DocName(url) IN
    /\ Ready
    /\ UNCHANGED <<libs, cloned, threads, locals>>
    /\ \/ /\ ~libs
          /\ ret' = Resp("index_documentation", doc_name, "LibrariesNotAvailable")
          /\ UNCHANGED <<resources, searchers, package_searchers, disk, up, cache>>
       \/ /\ libs
          /\ o = "fetch_fail"
          /\ ret' = Failed("index_documentation", doc_name, "ErrorIndexing", o)
          /\ UNCHANGED <<resources, searchers, package_searchers, disk, up, cache>>
       \/ /\ libs
          /\ o \in BuildOutcomes
          /\ BuildIndex("index_documentation", doc_name, DocMeta(url), o)

----------------------------------------------------------------------------
(* Unified resource management *)

\* a rename that copies the entry and leaves the old key in place
RenameEntryCopies(reg, identifier, new_name) ==
    Put(reg, new_name, reg[identifier])

\* resources[new_name] = resources.pop(identifier)
RenameEntry(reg, identifier, new_name) ==
    Put(Remove(reg, identifier), new_name, reg[identifier])

\* rename_resource; `o` is the outcome of save_resources, whose exception
\* nothing catches
rename_resource(identifier, new_name, o) ==
    /\ Ready
    /\ UNCHANGED <<cloned, libs, threads, locals>>
    /\ \/ /\ identifier \notin DOMAIN resources
          /\ ret' = [Resp("rename_resource", identifier, "NotFound") EXCEPT !.id2 = new_name]
          /\ UNCHANGED <<resources, searchers, package_searchers, disk, up, cache>>
       \/ /\ identifier \in DOMAIN resources
          /\ o # "crash_write"
          /\ resources' = RenameEntry(resources, identifier, new_name)
          /\ disk' = SaveResources(disk, resources', o)
          /\ ret' = [Resp("rename_resource", identifier,
                          IF o = "ok" THEN "Renamed" ELSE "Raised")
                     EXCEPT !.id2 = new_name]
          /\ UNCHANGED <<searchers, package_searchers, up, cache>>
       \/ /\ identifier \in DOMAIN resources
          /\ o = "crash_write"
          /\ disk' = SaveResources(disk, RenameEntry(resources, identifier, new_name), o)
          /\ Down
          /\ ret' = [Resp("rename_resource", identifier, "Crashed") EXCEPT !.id2 = new_name]

\* a delete that leaves the handle in its table
DeleteHandleKeeps(s, identifier) == s

\* if identifier in searchers: del searchers[identifier]
DeleteHandle(s, identifier) ==
    IF identifier \in DOMAIN s THEN Remove(s, identifier) ELSE s

\* delete_resource; `o` is the outcome of save_resources, whose exception
\* nothing catches
delete_resource(identifier, o) ==
    /\ Ready
    /\ UNCHANGED <<cloned, libs, threads, locals>>
    /\ \/ /\ identifier \notin DOMAIN resources
          /\ ret' = Resp("delete_resource", identifier, "NotFound")
          /\ UNCHANGED <<resources, searchers, package_searchers, disk, up, cache>>
       \/ /\ identifier \in DOMAIN resources
          /\ o # "crash_write"
          /\ resources' = Remove(resources, identifier)
          /\ searchers' = DeleteHandle(searchers, identifier)
          /\ package_searchers' = DeleteHandle(package_searchers, identifier)
          /\ disk' = SaveResources(disk, resources', o)
          /\ ret' = Resp("delete_resource", identifier,
                         IF o = "ok" THEN "Deleted" ELSE "Raised")
          /\ UNCHANGED <<up, cache>>
       \/ /\ identifier \in DOMAIN resources
          /\ o = "crash_write"
          /\ disk' = SaveResources(disk, Remove(resources, identifier), o)
          /\ Down
          /\ ret' = Resp("delete_resource", identifier, "Crashed")

\* check_resource_status as a function of the registry
StatusOf(reg, identifier) ==
    IF identifier \in DOMAIN reg THEN reg[identifier].status ELSE "Not found"

check_resource_status(identifier) ==
    /\ Ready
    /\ ret' = Resp("check_resource_status", identifier, StatusOf(resources, identifier))
    /\ UNCHANGED <<resources, searchers, package_searchers, disk, cloned, libs, up, cache, threads, locals>>

----------------------------------------------------------------------------
(* Search *)

\* One iteration of the loop of search_codebase / search_documentation;
\* `raises`: searchers[repo].search(query) raises.
SearchOne(s, repo, raises) ==
    IF repo \in DOMAIN s
    THEN IF raises
         THEN [id |-> repo, kind |-> "error", h |-> s[repo]]
         ELSE [id |-> repo, kind |-> "result", h |-> s[repo]]
    ELSE [id |-> repo, kind |-> "not_indexed", h |-> NoSearcher]

\* a loop that a raising searcher ends, dropping the identifiers after it
RECURSIVE SearchLoopAborts(_, _, _, _, _)
SearchLoopAborts(s, repositories, bad, i, results) ==
    IF i > Len(repositories) \/ (repositories[i] \in DOMAIN s /\ repositories[i] \in bad)
    THEN results
    ELSE SearchLoopAborts(s, repositories, bad, i + 1,
                          Append(results, SearchOne(s, repositories[i], FALSE)))

\* results = []; for repo in repositories: results.append(...)
RECURSIVE SearchLoop(_, _, _, _, _)
SearchLoop(s, repositories, bad, i, results) ==
    IF i > Len(repositories)
    THEN results
    ELSE SearchLoop(s, repositories, bad, i + 1,
                    Append(results, SearchOne(s, repositories[i], repositories[i] \in bad)))

\* The body shared by search_codebase and search_documentation. The entries
\* of `results` are what the code joins with newlines into its return value.
Search(op, query, ids, bad) ==
    /\ Ready
    /\ ret' = [Resp(op, "", "") EXCEPT
                 !.query = query, !.ids = ids,
                 !.out = IF Strip(query) = "" THEN "QueryEmpty"
                         ELSE IF ids = <<>> THEN "NoneSpecified"
                         ELSE "Results",
                 !.results = IF Strip(query) = "" \/ ids = <<>> THEN <<>>
                             ELSE SearchLoop(searchers, ids, bad, 1, <<>>)]
    /\ UNCHANGED <<resources, searchers, package_searchers, disk, cloned, libs, up, cache, threads, locals>>

search_codebase(query, repositories, bad) ==
    Search("search_codebase", query, repositories, bad)

search_documentation(query, sources, bad) ==
    Search("search_documentation", query, sources, bad)

\* the identifier lists handed to a search
IdLists == { <<>>, <<"a">>, <<"a", "doc">>, <<"doc", "a", "doc">> }

\* the identifiers of `ids` that hold a live handle, whose search can raise
Live(ids) == { ids[i] : i \in 1..Len(ids) } \cap DOMAIN searchers

----------------------------------------------------------------------------
(* Package search *)

HybridOutcomes == { "not_installed", "build_fail", "searcher_fail", "search_raise", "ok" }

\* kia_package_search_hybrid: the index of a local package is built on first
\* use and kept in package_searchers; any other registry goes to the remote
\* research agent and touches no table.
kia_package_search_hybrid(registry, package_name, o) ==
    /\ Ready
    /\ UNCHANGED <<resources, searchers, disk, cloned, libs, up, cache, threads, locals>>
    /\ \/ /\ registry # "local"
          /\ ret' = Resp("kia_package_search_hybrid", package_name, "RemoteResults")
          /\ UNCHANGED package_searchers
       \/ /\ registry = "local"
          /\ ~libs
          /\ ret' = Resp("kia_package_search_hybrid", package_name, "LibrariesNotAvailable")
          /\ UNCHANGED package_searchers
       \/ /\ registry = "local"
          /\ libs
          /\ package_name \in DOMAIN package_searchers
          /\ ret' = Resp("kia_package_search_hybrid", package_name,
                         IF o = "search_raise" THEN "Raised" ELSE "Results")
          /\ UNCHANGED package_searchers
       \/ /\ registry = "local"
          /\ libs
          /\ package_name \notin DOMAIN package_searchers
          /\ o \in { "not_installed", "build_fail", "searcher_fail" }
          /\ ret' = Resp("kia_package_search_hybrid", package_name,
                         IF o = "not_installed" THEN "PackageNotInstalled"
                         ELSE "ErrorBuildingIndex")
          /\ UNCHANGED package_searchers
       \/ /\ registry = "local"
          /\ libs
          /\ package_name \notin DOMAIN package_searchers
          /\ o \in { "search_raise", "ok" }
          /\ package_searchers' = RegisterHandle(package_searchers, package_name,
                                Searcher(PackageIndexPath(package_name), PackagePath(package_name)))
          /\ ret' = Resp("kia_package_search_hybrid", package_name,
                         IF o = "search_raise" THEN "Raised" ELSE "Results")

----------------------------------------------------------------------------
(* The process *)

\* The server process is killed between two calls.
Crash ==
    /\ Ready
    /\ Down
    /\ ret' = Resp("crash", "", "Crashed")
    /\ UNCHANGED <<disk, cloned, libs, threads, locals>>

\* The module is imported again: the globals are empty and load_resources()
\* runs; json.load raising there ends the process before it serves anything.
Restart ==
    /\ ~up
    /\ ret.op = "none"
    /\ searchers' = EmptyMap
    /\ package_searchers' = EmptyMap
    /\ cache' = EmptyMap
    /\ UNCHANGED <<disk, cloned, libs, threads, locals>>
    /\ \/ /\ LoadFails(disk)
          /\ ret' = Resp("restart", "", "LoadFailed")
          /\ UNCHANGED <<resources, up>>
       \/ /\ ~LoadFails(disk)
          /\ resources' = LoadResources(disk)
          /\ up' = TRUE
          /\ ret' = Resp("restart", "", "Loaded")

\* The response reaches the caller; the next request can be dispatched.
Deliver ==
    /\ ret.op # "none"
    /\ ret' = NoRet
    /\ UNCHANGED <<resources, searchers, package_searchers, disk, cloned, libs, up, cache, threads, locals>>

Next ==
    \/ \E u \in RepoUrls, o \in { "clone_fail", "collect_raise" } \cup BuildOutcomes :
          index_repository(u, o)
    \/ \E u \in DocUrls, o \in { "fetch_fail" } \cup BuildOutcomes :
          index_documentation(u, o)
    \/ \E q \in Queries, ids \in IdLists : \E bad \in SUBSET Live(ids) :
          search_codebase(q, ids, bad)
    \/ \E q \in Queries, ids \in IdLists : \E bad \in SUBSET Live(ids) :
          search_documentation(q, ids, bad)
    \/ \E r \in Registries, p \in PackageNames, o \in HybridOutcomes :
          kia_package_search_hybrid(r, p, o)
    \/ \E x \in Identifiers : check_resource_status(x)
    \/ \E x \in Identifiers, y \in Identifiers, o \in SaveOutcomes :
          rename_resource(x, y, o)
    \/ \E x \in Identifiers, o \in SaveOutcomes : delete_resource(x, o)
    \/ Crash
    \/ Restart
    \/ Deliver

Spec == Init /\ [][Next]_vars

----------------------------------------------------------------------------
(* Reading a source.  read_source_content is wrapped in lru_cache(maxsize=64):
   a call with an argument seen before returns what the first call returned
   and does not run the body. *)

\* The body of read_source_content as a function of the registry.  The path
\* of a repository is its clone directory and a URL names no local file, so
\* path.is_file() is false for every entry the tools record.
SourceContent(reg, source_identifier) ==
    IF source_identifier \in DOMAIN reg
    THEN [out |-> "Content", loc |-> reg[source_identifier].loc]
    ELSE [out |-> "Not found", loc |-> <<>>]

\* functools.lru_cache: a hit returns the stored value, a miss runs the body
CachedCall(c, reg, source_identifier) ==
    IF source_identifier \in DOMAIN c
    THEN c[source_identifier]
    ELSE SourceContent(reg, source_identifier)

read_source_content(source_identifier) ==
    LET value == CachedCall(cache, resources, source_identifier) IN
    /\ Ready
    /\ cache' = Put(cache, source_identifier, value)
    /\ ret' = [Resp("read_source_content", source_identifier, value.out)
                 EXCEPT !.loc = value.loc]
    /\ UNCHANGED <<resources, searchers, package_searchers, disk, cloned, libs, up,
                   threads, locals>>

\* the identifiers handed to read_source_content
SourceIdentifiers == { "a", "b" }

\* The registry tools and read_source_content, one request at a time.
NextCache ==
    \/ \E u \in RepoUrls, o \in { "clone_fail", "collect_raise" } \cup BuildOutcomes :
          index_repository(u, o)
    \/ \E u \in DocUrls, o \in { "fetch_fail" } \cup BuildOutcomes :
          index_documentation(u, o)
    \/ \E x \in Identifiers, y \in Identifiers, o \in SaveOutcomes :
          rename_resource(x, y, o)
    \/ \E x \in Identifiers, o \in SaveOutcomes : delete_resource(x, o)
    \/ \E x \in SourceIdentifiers : read_source_content(x)
    \/ Crash
    \/ Restart
    \/ Deliver

SpecCache == Init /\ [][NextCache]_vars

----------------------------------------------------------------------------
(* Worker threads.  No tool takes a lock, so when the host runs tool calls on
   worker threads the statements of two calls interleave.  Each action below
   is one statement (or one call of an external collaborator) of a tool,
   run by thread t. *)

shared == <<resources, searchers, package_searchers, disk, cloned>>

\* thread t returns `out` and is idle again
Returns(t, out) ==
    threads' = [threads EXCEPT ![t] = [NoThread EXCEPT !.out = out, !.calls = threads[t].calls]]

\* thread t moves on to statement pc
Goes(t, pc) == threads' = [threads EXCEPT ![t].pc = pc]

CanCall(t) == threads[t].pc = "idle" /\ threads[t].calls < MaxCalls

\* thread t enters a call at statement pc
Enters(t, op, id, url, pc) ==
    threads' = [threads EXCEPT ![t] = [pc |-> pc, op |-> op, id |-> id, url |-> url,
                                       out |-> "", calls |-> threads[t].calls + 1]]

\* thread t's call returns at once
Refuses(t, out) ==
    threads' = [threads EXCEPT ![t] = [NoThread EXCEPT !.out = out, !.calls = threads[t].calls + 1]]

\* index_documentation up to requests.get
t_index_documentation(t, url) ==
    /\ CanCall(t)
    /\ IF ~libs
       THEN Refuses(t, "LibrariesNotAvailable")
       ELSE Enters(t, "index_documentation", DocName(url), url, "fetch")
    /\ UNCHANGED <<shared, libs, up, ret, cache, locals>>

\* requests.get, raise_for_status, chunk_text
t_fetch(t, ok) ==
    /\ threads[t].pc = "fetch"
    /\ IF ok THEN Goes(t, "build") ELSE Returns(t, "ErrorIndexing")
    /\ UNCHANGED <<shared, libs, up, ret, cache, locals>>

\* index_repository up to path.exists()
t_index_repository(t, repo_url) ==
    /\ CanCall(t)
    /\ IF ~libs
       THEN Refuses(t, "LibrariesNotAvailable")
       ELSE IF PathExists(cloned, RepoName(repo_url))
            THEN Refuses(t, "AlreadyCloned")
            ELSE Enters(t, "index_repository", RepoName(repo_url), repo_url, "clone")
    /\ UNCHANGED <<shared, libs, up, ret, cache, locals>>

\* git clone: it fails on a directory another clone has made meanwhile
t_clone(t, ok) ==
    /\ threads[t].pc = "clone"
    /\ IF ok /\ threads[t].id \notin cloned
       THEN /\ cloned' = cloned \cup {threads[t].id}
            /\ Goes(t, "collect")
       ELSE /\ Returns(t, "GitCloneFailed")
            /\ UNCHANGED cloned
    /\ UNCHANGED <<resources, searchers, package_searchers, disk, libs, up, ret, cache, locals>>

\* Parser.from_tree_sitter ... flow.collect(), outside every try
t_collect(t, ok) ==
    /\ threads[t].pc = "collect"
    /\ IF ok THEN Goes(t, "build") ELSE Returns(t, "Raised")
    /\ UNCHANGED <<shared, libs, up, ret, cache, locals>>

\* LeannBuilder, add_document, build
t_build(t, ok) ==
    /\ threads[t].pc = "build"
    /\ IF ok THEN Goes(t, "reg_handle") ELSE Returns(t, "ErrorBuildingIndex")
    /\ UNCHANGED <<shared, libs, up, ret, cache, locals>>

\* the metadata the call in thread t records
MetaOf(th) == IF th.op = "index_repository" THEN RepoMeta(th.id) ELSE DocMeta(th.url)

\* searchers[name] = LeannSearcher(str(index_path))
t_reg_handle(t, ok) ==
    /\ threads[t].pc = "reg_handle"
    /\ IF ok
       THEN /\ searchers' = RegisterHandle(searchers, threads[t].id,
                                              Searcher(IndexPath(threads[t].id),
                                                       MetaOf(threads[t]).loc))
            /\ Goes(t, "reg_resource")
       ELSE /\ Returns(t, "ErrorBuildingIndex")
            /\ UNCHANGED searchers
    /\ UNCHANGED <<resources, package_searchers, disk, cloned, libs, up, ret, cache, locals>>

\* resources[name] = {...}
t_reg_resource(t) ==
    /\ threads[t].pc = "reg_resource"
    /\ resources' = RegisterResource(resources, threads[t].id, MetaOf(threads[t]))
    /\ Goes(t, "save")
    /\ UNCHANGED <<searchers, package_searchers, disk, cloned, libs, up, ret, cache, locals>>

\* save_resources() and the return after it, in an indexing call and in
\* delete_resource
t_save(t, o) ==
    /\ threads[t].pc = "save"
    /\ disk' = SaveResources(disk, resources, o)
    /\ Returns(t, IF threads[t].op = "delete_resource"
                  THEN (IF o = "ok" THEN "Deleted" ELSE "Raised")
                  ELSE (IF o = "ok" THEN "Indexed" ELSE "ErrorBuildingIndex"))
    /\ UNCHANGED <<resources, searchers, package_searchers, cloned, libs, up, ret, cache, locals>>

\* delete_resource: if identifier in resources
t_delete_resource(t, identifier) ==
    /\ CanCall(t)
    /\ IF identifier \in DOMAIN resources
       THEN Enters(t, "delete_resource", identifier, <<>>, "del_resource")
       ELSE Refuses(t, "NotFound")
    /\ UNCHANGED <<shared, libs, up, ret, cache, locals>>

\* del resources[identifier]: a KeyError when another thread has deleted it
t_del_resource(t) ==
    /\ threads[t].pc = "del_resource"
    /\ IF threads[t].id \in DOMAIN resources
       THEN /\ resources' = Remove(resources, threads[t].id)
            /\ Goes(t, "in_searchers")
       ELSE /\ Returns(t, "Raised")
            /\ UNCHANGED resources
    /\ UNCHANGED <<searchers, package_searchers, disk, cloned, libs, up, ret, cache, locals>>

\* if identifier in searchers
t_in_searchers(t) ==
    /\ threads[t].pc = "in_searchers"
    /\ Goes(t, IF threads[t].id \in DOMAIN searchers THEN "del_searcher"
                ELSE "in_package_searchers")
    /\ UNCHANGED <<shared, libs, up, ret, cache, locals>>

\* del searchers[identifier]: a KeyError when another thread has deleted it
t_del_searcher(t) ==
    /\ threads[t].pc = "del_searcher"
    /\ IF threads[t].id \in DOMAIN searchers
       THEN /\ searchers' = Remove(searchers, threads[t].id)
            /\ Goes(t, "in_package_searchers")
       ELSE /\ Returns(t, "Raised")
            /\ UNCHANGED searchers
    /\ UNCHANGED <<resources, package_searchers, disk, cloned, libs, up, ret, cache, locals>>

\* if identifier in package_searchers
t_in_package_searchers(t) ==
    /\ threads[t].pc = "in_package_searchers"
    /\ Goes(t, IF threads[t].id \in DOMAIN package_searchers THEN "del_package_searcher"
                ELSE "save")
    /\ UNCHANGED <<shared, libs, up, ret, cache, locals>>

\* del package_searchers[identifier]
t_del_package_searcher(t) ==
    /\ threads[t].pc = "del_package_searcher"
    /\ IF threads[t].id \in DOMAIN package_searchers
       THEN /\ package_searchers' = Remove(package_searchers, threads[t].id)
            /\ Goes(t, "save")
       ELSE /\ Returns(t, "Raised")
            /\ UNCHANGED package_searchers
    /\ UNCHANGED <<resources, searchers, disk, cloned, libs, up, ret, cache, locals>>

\* kia_package_search_hybrid("local", ...) up to package_path.exists()
t_package_search_hybrid(t, package_name, installed) ==
    /\ CanCall(t)
    /\ IF ~libs
       THEN Refuses(t, "LibrariesNotAvailable")
       ELSE IF package_name \in DOMAIN package_searchers
            THEN Enters(t, "kia_package_search_hybrid", package_name, <<>>, "pkg_search")
            ELSE IF installed
                 THEN Enters(t, "kia_package_search_hybrid", package_name, <<>>, "pkg_build")
                 ELSE Refuses(t, "PackageNotInstalled")
    /\ UNCHANGED <<shared, libs, up, ret, cache, locals>>

\* LeannBuilder, add_document, build for the package
t_pkg_build(t, ok) ==
    /\ threads[t].pc = "pkg_build"
    /\ IF ok THEN Goes(t, "pkg_reg") ELSE Returns(t, "ErrorBuildingIndex")
    /\ UNCHANGED <<shared, libs, up, ret, cache, locals>>

\* package_searchers[package_name] = LeannSearcher(str(index_path))
t_pkg_reg(t, ok) ==
    /\ threads[t].pc = "pkg_reg"
    /\ IF ok
       THEN /\ package_searchers' =
                  RegisterHandle(package_searchers, threads[t].id,
                                 Searcher(PackageIndexPath(threads[t].id),
                                          PackagePath(threads[t].id)))
            /\ Goes(t, "pkg_search")
       ELSE /\ Returns(t, "ErrorBuildingIndex")
            /\ UNCHANGED package_searchers
    /\ UNCHANGED <<resources, searchers, disk, cloned, libs, up, ret, cache, locals>>

\* the loop over semantic_queries, outside every try
t_pkg_search(t, ok) ==
    /\ threads[t].pc = "pkg_search"
    /\ Returns(t, IF ok THEN "Results" ELSE "Raised")
    /\ UNCHANGED <<shared, libs, up, ret, cache, locals>>

NextConc ==
    \E t \in Threads :
        \/ \E u \in DocUrls : t_index_documentation(t, u)
        \/ \E u \in RepoUrls : t_index_repository(t, u)
        \/ \E x \in Names : t_delete_resource(t, x)
        \/ \E p \in PackageNames, i \in BOOLEAN : t_package_search_hybrid(t, p, i)
        \/ \E ok \in BOOLEAN :
              \/ t_fetch(t, ok)
              \/ t_clone(t, ok)
              \/ t_collect(t, ok)
              \/ t_build(t, ok)
              \/ t_reg_handle(t, ok)
              \/ t_pkg_build(t, ok)
              \/ t_pkg_reg(t, ok)
              \/ t_pkg_search(t, ok)
        \/ t_reg_resource(t)
        \/ \E o \in { "ok", "raise_write" } : t_save(t, o)
        \/ t_del_resource(t)
        \/ t_in_searchers(t)
        \/ t_del_searcher(t)
        \/ t_in_package_searchers(t)
        \/ t_del_package_searcher(t)

SpecConc == Init /\ [][NextConc]_vars

----------------------------------------------------------------------------
(* Deep research.  One call of kia_deep_research_agent, statement by
   statement; the answers of the remote service are inputs of the steps. *)

\* for i in range(30)
PollBudget == 30

\* the run identifiers the service hands out
RunIds == { "r1", "r2" }

\* what one result request ends in: status 200, another status, an exception
PollOutcomes == { "200", "pending", "raise" }

server == <<resources, searchers, package_searchers, disk, cloned, libs, up,
            ret, threads, cache>>

\* a loop that polls until the result is there
BudgetLeftAlways(polls) == TRUE

\* the loop `for i in range(30)` has an iteration left after `polls` of them
BudgetLeft(polls) == polls < PollBudget

\* kia_deep_research_agent up to the test of PARALLEL_API_KEY
kia_deep_research_agent(key) ==
    /\ research.pc = "idle"
    /\ research' = IF key
                   THEN [research EXCEPT !.pc = "post", !.key = TRUE]
                   ELSE [research EXCEPT !.pc = "done", !.out = "KeyNotSet"]
    /\ UNCHANGED <<server, chunker, reader>>

\* requests.post, raise_for_status, response.json()["run_id"]
research_post(o) ==
    /\ research.pc = "post"
    /\ research' = IF o = "raise"
                   THEN [research EXCEPT !.pc = "done", !.out = "Error"]
                   ELSE [research EXCEPT !.pc = "poll", !.run_id = o]
    /\ UNCHANGED <<server, chunker, reader>>

\* one iteration of the loop: requests.get(result_url), then return the
\* output, or time.sleep(2); an exception goes to the except clause
research_poll(o) ==
    /\ research.pc = "poll"
    /\ BudgetLeft(research.polls)
    /\ research' =
          [research EXCEPT
             !.polls = @ + 1,
             !.pc = IF o = "pending" THEN "poll" ELSE "done",
             !.out = IF o = "200" THEN "Output"
                     ELSE IF o = "raise" THEN "Error" ELSE ""]
    /\ UNCHANGED <<server, chunker, reader>>

\* the loop is over: return f"Task {run_id} still processing"
research_give_up ==
    /\ research.pc = "poll"
    /\ ~BudgetLeft(research.polls)
    /\ research' = [research EXCEPT !.pc = "done", !.out = "StillProcessing",
                                    !.out_run_id = research.run_id]
    /\ UNCHANGED <<server, chunker, reader>>

NextResearch ==
    \/ \E key \in BOOLEAN : kia_deep_research_agent(key)
    \/ \E o \in RunIds \cup { "raise" } : research_post(o)
    \/ \E o \in PollOutcomes : research_poll(o)
    \/ research_give_up

\* The call runs on: every request has a timeout, the sleep is two seconds.
SpecResearch == Init /\ [][NextResearch]_vars /\ WF_vars(NextResearch)

----------------------------------------------------------------------------
(* Chunking.  One call of chunk_text(text, chunk_size, overlap), the loop
   iteration by iteration.  A text is the sequence of its characters; the
   calls are made with small chunk sizes, the 200 of the search for a break
   point is the code's. *)

Chars == { "x", " ", ".", "\n" }
\* the characters str.strip() removes
Whitespace == { " ", "\n" }
\* if text[i] in '.!?\n'
BreakChars == { ".", "!", "?", "\n" }

Texts == UNION { [1..n -> Chars] : n \in 0..MaxText }
ChunkSizes == { 2, 3 }
Overlaps == { 0, 1 }

SetMax(S) == CHOOSE x \in S : \A y \in S : y <= x
SetMin(S) == CHOOSE x \in S : \A y \in S : x <= y

\* a Python slice index brought into 0..n
SliceIndex(i, n) == IF i < 0 THEN SetMax({ i + n, 0 }) ELSE SetMin({ i, n })

\* s[a:b] of Python, `a` and `b` counted from 0
PySlice(s, a, b) == SubSeq(s, SliceIndex(a, Len(s)) + 1, SliceIndex(b, Len(s)))

\* str.strip() on a text
StripText(s) ==
    IF \A i \in 1..Len(s) : s[i] \in Whitespace
    THEN <<>>
    ELSE LET first == CHOOSE i \in 1..Len(s) :
                         s[i] \notin Whitespace /\ \A j \in 1..(i - 1) : s[j] \in Whitespace
             last == CHOOSE i \in 1..Len(s) :
                        s[i] \notin Whitespace /\ \A j \in (i + 1)..Len(s) : s[j] \in Whitespace
         IN SubSeq(s, first, last)

\* a test that sends a text of exactly chunk_size characters into the loop
FitsStrictly(text, chunk_size) == Len(text) < chunk_size

\* if len(text) <= chunk_size
Fits(text, chunk_size) == Len(text) <= chunk_size

\* a scan that goes back over the whole chunk
BreakPointWholeChunk(text, start, end) ==
    LET found == { i \in (start + 1)..end : text[i + 1] \in BreakChars } IN
    IF found = {} THEN end ELSE SetMax(found) + 1

\* for i in range(end, max(start, end - 200), -1): if text[i] in '.!?\n':
\* end = i + 1; break      (text[i] of Python is text[i + 1] here)
BreakPoint(text, start, end) ==
    LET found == { i \in (SetMax({ start, end - 200 }) + 1)..end : text[i + 1] \in BreakChars } IN
    IF found = {} THEN end ELSE SetMax(found) + 1

\* the `end` of one iteration of the loop
ChunkEnd(text, chunk_size, start) ==
    IF start + chunk_size < Len(text)
    THEN BreakPoint(text, start, start + chunk_size)
    ELSE start + chunk_size

\* chunk_text up to the loop
chunk_text(text, chunk_size, overlap) ==
    /\ chunker.pc = "idle"
    /\ chunker' = IF Fits(text, chunk_size)
                  THEN [NoChunker EXCEPT !.pc = "done", !.text = text,
                                         !.chunk_size = chunk_size, !.overlap = overlap,
                                         !.chunks = <<text>>]
                  ELSE [NoChunker EXCEPT !.pc = "loop", !.text = text,
                                         !.chunk_size = chunk_size, !.overlap = overlap]
    /\ UNCHANGED <<server, research, reader>>

\* one iteration of `while start < len(text)`
chunk_text_loop ==
    /\ chunker.pc = "loop"
    /\ chunker.start < Len(chunker.text)
    /\ LET end == ChunkEnd(chunker.text, chunker.chunk_size, chunker.start)
           chunk == StripText(PySlice(chunker.text, chunker.start, end))
       IN chunker' = [chunker EXCEPT
                        !.chunks = IF chunk # <<>> THEN Append(@, chunk) ELSE @,
                        !.start = end - chunker.overlap]
    /\ UNCHANGED <<server, research, reader>>

\* the loop is over: return chunks
chunk_text_return ==
    /\ chunker.pc = "loop"
    /\ ~(chunker.start < Len(chunker.text))
    /\ chunker' = [chunker EXCEPT !.pc = "done"]
    /\ UNCHANGED <<server, research, reader>>

NextChunk ==
    \/ /\ chunker.pc = "idle"
       /\ \E text \in Texts, chunk_size \in ChunkSizes, overlap \in Overlaps :
             chunk_text(text, chunk_size, overlap)
    \/ chunk_text_loop
    \/ chunk_text_return

SpecChunk == Init /\ [][NextChunk]_vars

\* chunk_size: int = 1000, overlap: int = 200
DefaultChunkSize == 1000
DefaultOverlap == 200

\* The calls the server makes, chunk_text(content), have texts of more than
\* 1000 characters reach the loop.  Such a text is given by its length and
\* the places (counted from 0) of its sentence ends; the other characters
\* are letters.
LongText(length, breaks) ==
    [i \in 1..length |-> IF (i - 1) \in breaks THEN "." ELSE "x"]

\* lengths around one, two and three chunks
TextLengths == { 1001, 1200, 1801, 2600 }
\* sentence ends near the start of a chunk, at the edges of the scan of the
\* first and of the second chunk, and at the end of the text
BreakPlaces == { 1, 800, 801, 1000, 1601, 1800, 2599 }

NextChunkDefault ==
    \/ /\ chunker.pc = "idle"
       /\ \E length \in TextLengths, breaks \in SUBSET BreakPlaces :
             chunk_text(LongText(length, { b \in breaks : b < length }),
                        DefaultChunkSize, DefaultOverlap)
    \/ chunk_text_loop
    \/ chunk_text_return

SpecChunkDefault == Init /\ [][NextChunkDefault]_vars

----------------------------------------------------------------------------
(* Reading a file of a package.  One call of kia_package_search_read_file;
   a line of the file is represented by its number in the file. *)

\* file_path.read_text().splitlines() of a file of n lines
FileLines(n) == [i \in 1..n |-> i]

\* the start_line and end_line of a call
LineNumbers == (0 - 2)..(MaxLines + 1)

\* if start_line > len(lines) or end_line < start_line
InvalidRange(lines, start_line, end_line) ==
    start_line > Len(lines) \/ end_line < start_line

kia_package_search_read_file(registry, exists, lines, start_line, end_line) ==
    /\ reader.pc = "idle"
    /\ reader' =
          [NoReader EXCEPT
             !.pc = "done", !.registry = registry, !.exists = exists,
             !.lines = lines, !.start_line = start_line, !.end_line = end_line,
             !.out = IF registry # "local" THEN "RemoteContent"
                     ELSE IF ~exists THEN "File not found"
                     ELSE IF InvalidRange(lines, start_line, end_line)
                          THEN "Invalid line range"
                     ELSE "Lines",
             !.read = IF registry = "local" /\ exists
                         /\ ~InvalidRange(lines, start_line, end_line)
                      THEN PySlice(lines, start_line - 1, end_line)
                      ELSE <<>>]
    /\ UNCHANGED <<server, research, chunker>>

\* the caller has the answer; the next call can be made
reader_return ==
    /\ reader.pc = "done"
    /\ reader' = NoReader
    /\ UNCHANGED <<server, research, chunker>>

NextRead ==
    \/ \E registry \in Registries, exists \in BOOLEAN, n \in 0..MaxLines,
          start_line \in LineNumbers, end_line \in LineNumbers :
          kia_package_search_read_file(registry, exists, FileLines(n), start_line, end_line)
    \/ reader_return

SpecRead == Init /\ [][NextRead]_vars

----------------------------------------------------------------------------
(* The calls a claim speaks of *)

IndexOps == { "index_repository", "index_documentation" }
SearchOps == { "search_codebase", "search_documentation" }
MutatingOps == IndexOps \cup { "rename_resource", "delete_resource" }
SuccessOuts == { "Indexed", "Renamed", "Deleted" }
\* the error strings a failed indexing call returns
IndexErrors == { "ErrorBuildingIndex", "ErrorIndexing", "GitCloneFailed" }
\* the failures of the fetch, of the clone and of the index build
BuildFailures == { "fetch_fail", "clone_fail", "build_fail", "searcher_fail" }

----------------------------------------------------------------------------
(* C1: in every reachable state every key of `searchers` is a key of
   `resources`. *)
C1_HandleHasEntry ==
    DOMAIN searchers \subseteq DOMAIN resources

(* C2: when delete_resource(X) has returned "Deleted", X is a key of neither
   `resources`, `searchers` nor `package_searchers`; an identifier gains a
   handle in `searchers` only by an indexing call for that identifier; and a
   search reports "Not indexed" for every identifier that has no handle. *)
C2_DeleteThenNotIndexed ==
    /\ (ret.op = "delete_resource" /\ ret.out = "Deleted") =>
          /\ ret.id \notin DOMAIN resources
          /\ ret.id \notin DOMAIN searchers
          /\ ret.id \notin DOMAIN package_searchers
    /\ \A x \in DOMAIN searchers :
          (ret.op # "none" /\ x \notin DOMAIN ret.before.searchers) =>
              (ret.op \in IndexOps /\ ret.id = x)
    /\ (ret.op \in SearchOps /\ ret.out = "Results") =>
          \A i \in 1..Len(ret.ids) :
              ret.ids[i] \notin DOMAIN searchers =>
                  /\ i \in DOMAIN ret.results
                  /\ ret.results[i].id = ret.ids[i]
                  /\ ret.results[i].kind = "not_indexed"

\* delete_resource has just removed an identifier that held a handle
C2_Witness ==
    /\ ret.op = "delete_resource"
    /\ ret.out = "Deleted"
    /\ ret.id \in DOMAIN ret.before.searchers
    /\ ret.id \in DOMAIN ret.before.package_searchers

(* C3: when rename_resource(A, B) has returned "Renamed" for A registered
   and B not registered, check_resource_status(A) is "Not found", the entry
   under B is the metadata A had before the call, and every other entry is
   as it was. *)
C3_RenameMoves ==
    ( /\ ret.op = "rename_resource"
      /\ ret.out = "Renamed"
      /\ ret.id \in DOMAIN ret.before.resources
      /\ ret.id2 \notin DOMAIN ret.before.resources ) =>
        /\ StatusOf(resources, ret.id) = "Not found"
        /\ ret.id2 \in DOMAIN resources
        /\ resources[ret.id2] = ret.before.resources[ret.id]
        /\ DOMAIN resources \ {ret.id2} = DOMAIN ret.before.resources \ {ret.id}
        /\ \A x \in DOMAIN resources \ {ret.id2} : resources[x] = ret.before.resources[x]

\* a rename to a free name, with another entry in the registry
C3_Witness ==
    /\ ret.op = "rename_resource"
    /\ ret.out = "Renamed"
    /\ ret.id2 \notin DOMAIN ret.before.resources
    /\ Cardinality(DOMAIN resources) = 2

(* C4: rename_resource(old, new) with `new` already registered returns the
   Conflict error and leaves registry, handle table and snapshot as they
   were. *)
C4_RenameConflict ==
    ( /\ ret.op = "rename_resource"
      /\ ret.id2 \in DOMAIN ret.before.resources ) =>
        /\ ret.out = "Conflict"
        /\ resources = ret.before.resources
        /\ searchers = ret.before.searchers
        /\ disk = ret.before.disk

(* C5: when an indexing call has returned an error, `searchers` is as the
   call found it. *)
C5_FailedBuildNoHandle ==
    ( /\ ret.op \in IndexOps
      /\ ret.out \in IndexErrors \cup { "LibrariesNotAvailable" } ) =>
        searchers = ret.before.searchers

(* C6: when a build for X has failed in its fetch, its clone or its index
   build, check_resource_status(X) is "error"; when it has succeeded, it is
   "indexed". *)
C6_StatusAfterBuild ==
    /\ (ret.op \in IndexOps /\ ret.out \in IndexErrors /\ ret.cause \in BuildFailures) =>
          StatusOf(resources, ret.id) = "error"
    /\ (ret.op \in IndexOps /\ ret.out = "Indexed") =>
          StatusOf(resources, ret.id) = "indexed"

(* C7: when a mutating call has returned its success message the file holds
   the registry in memory; the file is never a partial snapshot, and a
   restart loads the registry the file holds. *)
C7_WriteThenAcknowledge ==
    /\ (ret.op \in MutatingOps /\ ret.out \in SuccessOuts) =>
          disk = Snapshot(resources)
    /\ disk.kind # "torn"
    /\ ret.op = "restart" =>
          (ret.out = "Loaded" /\ resources = LoadResources(disk))

\* thread th is in the fetch, the build or the handle registration of a call
InBuild(th) ==
    th.pc \in { "fetch", "clone", "collect", "build", "reg_handle", "pkg_build", "pkg_reg" }

(* C8: no two threads are at the same time in the fetch, the build or the
   handle registration of an indexing call for the same identifier. *)
C8_OneBuildPerIdentifier ==
    \A t1 \in Threads, t2 \in Threads :
        (t1 # t2 /\ InBuild(threads[t1]) /\ InBuild(threads[t2])) =>
            threads[t1].id # threads[t2].id

(* C9: when every call has returned, each identifier is a key of both
   `resources` and `searchers` or of neither. *)
C9_DeleteBuildSerialized ==
    (\A t \in Threads : threads[t].pc = "idle") =>
        \A x \in Names : (x \in DOMAIN resources) = (x \in DOMAIN searchers)

(* C10: a search with a non-empty query and a non-empty identifier list
   returns one entry per identifier, the i-th for the i-th identifier: the
   result or the error of its handle, or "Not indexed". *)
C10_SearchOrder ==
    ( /\ ret.op \in SearchOps
      /\ Strip(ret.query) # ""
      /\ ret.ids # <<>> ) =>
        /\ Len(ret.results) = Len(ret.ids)
        /\ \A i \in 1..Len(ret.ids) :
              /\ ret.results[i].id = ret.ids[i]
              /\ ret.results[i].kind \in { "result", "error", "not_indexed" }
              /\ (ret.results[i].kind = "not_indexed") = (ret.ids[i] \notin DOMAIN searchers)

\* a search whose second identifier raised and whose others are not indexed
C10_Witness ==
    /\ ret.op \in SearchOps
    /\ Len(ret.ids) = 3
    /\ Len(ret.results) = 3
    /\ ret.results[1].kind = "not_indexed"
    /\ ret.results[2].kind = "error"
    /\ ret.results[3].kind = "not_indexed"

(* C11: a search whose query is empty or only blanks, or whose identifier
   list is empty, returns one error message and no entry from any searcher
   handle, whatever `searchers` holds. *)
C11_SearchFailsFast ==
    ( /\ ret.op \in SearchOps
      /\ (ret.query \in { "", " " } \/ Len(ret.ids) = 0) ) =>
        /\ ret.out \in { "QueryEmpty", "NoneSpecified" }
        /\ ret.out = "QueryEmpty" <=> ret.query \in { "", " " }
        /\ ret.results = <<>>

\* a blank query for an identifier that holds a live handle
C11_Witness ==
    /\ ret.op \in SearchOps
    /\ ret.query = " "
    /\ Len(ret.ids) > 0
    /\ \A i \in 1..Len(ret.ids) : ret.ids[i] \in DOMAIN searchers
    /\ ret.out = "QueryEmpty"

(* C12: an indexing call that resolves to an identifier the registry already
   holds leaves that entry's metadata as it was and adds no entry. *)
C12_ReindexIdempotent ==
    ( /\ ret.op \in IndexOps
      /\ ret.out # "Crashed"
      /\ ret.id \in DOMAIN ret.before.resources ) =>
        /\ DOMAIN resources = DOMAIN ret.before.resources
        /\ resources[ret.id] = ret.before.resources[ret.id]

(* C13: index_repository for a repository whose clone directory exists
   answers "already cloned" (when the libraries are there), runs no clone and
   no index build, and leaves the registry, both handle tables, the snapshot
   and the clone directories as they were. *)
C13_AlreadyClonedNoOp ==
    ( /\ ret.op = "index_repository"
      /\ ret.id \in ret.before.cloned ) =>
        /\ ret.out \in { "AlreadyCloned", "LibrariesNotAvailable" }
        /\ ret.out = "AlreadyCloned" <=> libs
        /\ ret.cause = ""
        /\ resources = ret.before.resources
        /\ searchers = ret.before.searchers
        /\ package_searchers = ret.before.package_searchers
        /\ disk = ret.before.disk
        /\ cloned = ret.before.cloned

\* a second index_repository for a clone whose entry has been renamed away
C13_Witness ==
    /\ ret.op = "index_repository"
    /\ ret.out = "AlreadyCloned"
    /\ ret.id \in ret.before.cloned
    /\ ret.id \notin DOMAIN resources
    /\ ret.id \in DOMAIN searchers

\* the tools of the server specification
ToolOps == MutatingOps \cup SearchOps \cup
           { "check_resource_status", "kia_package_search_hybrid" }

(* C14: every tool call ends by returning a message, whatever external
   collaborator failed in it: no call ends by an exception leaving the
   tool. *)
C14_NoEscape ==
    ret.op \in ToolOps => ret.out # "Raised"

(* C15: kia_deep_research_agent makes at most 30 result requests and its
   call ends; when it ends after 30 requests of which none delivered the
   result and none raised, it returns the still-processing message naming
   the run, and it returns that message in no other case. *)
C15_BoundedWait ==
    /\ [](research.polls <= 30)
    /\ []((research.pc = "done" /\ research.out = "StillProcessing") =>
            (research.polls = 30 /\ research.out_run_id = research.run_id
                                 /\ research.run_id \in RunIds))
    /\ []((research.pc = "done" /\ research.polls = 30) =>
            research.out \in { "StillProcessing", "Output", "Error" })
    /\ []((research.pc = "done" /\ research.out \in { "Output", "Error", "KeyNotSet" }) =>
            research.out_run_id = "")
    /\ <>(research.pc = "done")

\* the budget is exhausted and the call has answered "still processing"
C15_Witness ==
    /\ research.pc = "done"
    /\ research.polls = 30
    /\ research.out = "StillProcessing"
    /\ research.out_run_id = "r2"

(* C16: for a text of at most chunk_size characters chunk_text returns one
   chunk, the text itself. *)
C16_SmallTextOneChunk ==
    (chunker.pc = "done" /\ Len(chunker.text) <= chunker.chunk_size) =>
        /\ Len(chunker.chunks) = 1
        /\ chunker.chunks[1] = chunker.text

\* a text of exactly chunk_size characters that begins with a blank
C16_Witness ==
    /\ chunker.pc = "done"
    /\ chunker.chunk_size = 3
    /\ chunker.text = <<" ", "x", ".">>
    /\ chunker.chunks = <<chunker.text>>

(* C17: no chunk chunk_text returns is empty once its leading and trailing
   blanks are removed, whatever the text. *)
C17_NoEmptyChunk ==
    chunker.pc = "done" =>
        \A i \in 1..Len(chunker.chunks) :
            \E j \in 1..Len(chunker.chunks[i]) : chunker.chunks[i][j] \notin { " ", "\n" }

(* C18: read_source_content(X) returns what its body returns for the
   registry of the moment: "Not found" when X is not registered, the content
   of X's location when it is. *)
C18_CacheTransparent ==
    ret.op = "read_source_content" =>
        /\ (ret.id \notin DOMAIN resources) <=> (ret.out = "Not found")
        /\ ret.out = SourceContent(resources, ret.id).out
        /\ ret.loc = SourceContent(resources, ret.id).loc

(* C19: for a local file of n lines kia_package_search_read_file answers
   "Invalid line range" when start_line < 1, start_line > n or
   end_line < start_line, and otherwise returns the lines start_line to
   min(end_line, n) of the file, in order. *)
C19_LineRange ==
    (reader.pc = "done" /\ reader.registry = "local" /\ reader.exists) =>
        LET n == Len(reader.lines) IN
        IF reader.start_line < 1 \/ reader.start_line > n
              \/ reader.end_line < reader.start_line
        THEN reader.out = "Invalid line range"
        ELSE /\ reader.out = "Lines"
             /\ reader.read = [i \in 1..(IF reader.end_line < n THEN reader.end_line ELSE n)
                                       - reader.start_line + 1
                                 |-> reader.lines[reader.start_line + i - 1]]

(* C20: in every reachable state every identifier whose registry status is
   "indexed" holds a handle in `searchers`, and no search answers
   "Not indexed" for such an identifier. *)
C20_IndexedHasHandle ==
    /\ \A x \in DOMAIN resources :
          resources[x].status = "indexed" => x \in DOMAIN searchers
    /\ ret.op \in SearchOps =>
          \A i \in 1..Len(ret.results) :
              ret.results[i].kind = "not_indexed" =>
                  StatusOf(resources, ret.results[i].id) # "indexed"

(* C21: a clone directory, once there, stays; and a call of index_repository
   for a repository whose clone directory exists changes neither the
   registry nor a handle table, so the repository gains no entry and no
   handle by it. *)
C21_CloneFreezesIndexing ==
    [][ /\ cloned \subseteq cloned'
        /\ ( /\ ret.op = "none"
             /\ ret'.op = "index_repository"
             /\ ret'.id \in cloned ) =>
               /\ resources' = resources
               /\ searchers' = searchers
               /\ package_searchers' = package_searchers
               /\ StatusOf(resources', ret'.id) = StatusOf(resources, ret'.id) ]_vars

\* index_repository was called again for a clone that has neither an entry
\* nor a handle (its build failed, or delete_resource removed it), and it
\* still has neither
C21_Witness ==
    /\ ret.op = "index_repository"
    /\ ret.out = "AlreadyCloned"
    /\ ret.id \in ret.before.cloned
    /\ ret.id \notin DOMAIN resources
    /\ ret.id \notin DOMAIN searchers

(* C22: with chunk size 1000 and overlap 200 every iteration of the loop of
   chunk_text starts below the end of the text and leaves `start` larger
   than it found it, so the loop ends after at most len(text) iterations;
   the cut point (the next start + 200) lies after the scan's lower edge
   start + 800; and an iteration only appends to the chunks collected so
   far, which the call returns as they are. *)
C22_StartIncreases ==
    [][ ( /\ chunker.pc = "loop"
          /\ chunker.chunk_size = 1000
          /\ chunker.overlap = 200 ) =>
            \/ /\ chunker'.pc = "loop"
               /\ chunker.start < Len(chunker.text)
               /\ chunker'.start > chunker.start
               /\ chunker'.start + 200 > chunker.start + 800
               /\ Len(chunker'.chunks) >= Len(chunker.chunks)
               /\ SubSeq(chunker'.chunks, 1, Len(chunker.chunks)) = chunker.chunks
            \/ /\ chunker'.pc = "done"
               /\ chunker.start >= Len(chunker.text)
               /\ chunker'.chunks = chunker.chunks ]_vars

\* a text of three chunks whose second cut was moved back to a sentence end
C22_Witness ==
    /\ chunker.pc = "done"
    /\ chunker.chunk_size = 1000
    /\ Len(chunker.text) = 2600
    /\ Len(chunker.chunks) = 4
    /\ Len(chunker.chunks[1]) = 802
    /\ Len(chunker.chunks[2]) = 1000

====
